---- MODULE Spec2Model ----
(***************************************************************************)
(* A model of csv2bib.py: the command-line run that validates a CSV table, *)
(* negotiates a column -> BibTeX field mapping over the prompt channel and *)
(* writes one @article block per data row.                                 *)
(*                                                                         *)
(* Strings are sequences of chunks.  A chunk is a run of characters that   *)
(* is either one character ("D", "e", " ", "{") or a word that is never    *)
(* split (a BibTeX field name, a literal of the output syntax).  Column    *)
(* names are atomic strings, as they are only ever used as dictionary      *)
(* keys.  Dictionaries are sequences of <<key, value>> pairs with distinct *)
(* keys, in insertion order (Python's dict).                               *)
(***************************************************************************)
EXTENDS Integers, Sequences, FiniteSets, TLC

VARIABLES
    pc,             \* position of the run in __main__ and its callees
    argc,           \* len(sys.argv)
    file,           \* the input CSV file, as csv.reader parses it
    store,          \* field_mapping.json in the working directory
    console,        \* the prompt channel: every input() with its answer
    stdout,         \* the diagnostics printed so far
    fields,         \* get_field_mapping: reader.fieldnames
    colIdx,         \* get_field_mapping: index of the next header column
    mapping,        \* get_field_mapping: the dict under construction
    field_mapping,  \* __main__: the mapping handed to the converter
    reader,         \* data rows consumed from the currently open DictReader
    out,            \* the output path: whether it exists, and its blocks
    exit_status     \* process exit status, -1 while running

vars == <<pc, argc, file, store, console, stdout, fields, colIdx, mapping,
          field_mapping, reader, out, exit_status>>

----------------------------------------------------------------------------
(* Bounds of the model *)

MaxRows == 2
MaxLen == 3

(* Program constant: the number of sample rows get_field_mapping reads *)
SampleSize == 3

----------------------------------------------------------------------------
(* Characters and strings *)

UpperCase == {"D", "W", "Y"}

isupper(c) == c \in UpperCase

isspace(c) == c = " "

lower_char(c) ==
    CASE c = "D" -> "d"
      [] c = "W" -> "w"
      [] c = "Y" -> "y"
      [] OTHER -> c

lower(s) == [i \in DOMAIN s |-> lower_char(s[i])]

RECURSIVE lstrip(_)
lstrip(s) ==
    IF s = <<>> THEN <<>>
    ELSE IF isspace(Head(s)) THEN lstrip(Tail(s))
    ELSE s

RECURSIVE rstrip(_)
rstrip(s) ==
    IF s = <<>> THEN <<>>
    ELSE IF isspace(s[Len(s)]) THEN rstrip(SubSeq(s, 1, Len(s) - 1))
    ELSE s

strip(s) == rstrip(lstrip(s))

(* str.split(","): the segments between commas, empty ones kept *)
RECURSIVE split_comma(_, _)
split_comma(s, cur) ==
    IF s = <<>> THEN <<cur>>
    ELSE IF Head(s) = "," THEN <<cur>> \o split_comma(Tail(s), <<>>)
    ELSE split_comma(Tail(s), Append(cur, Head(s)))

(* str.split(): the maximal runs of non-whitespace, empty ones dropped *)
RECURSIVE split_ws(_, _)
split_ws(s, cur) ==
    IF s = <<>> THEN (IF cur = <<>> THEN <<>> ELSE <<cur>>)
    ELSE IF isspace(Head(s))
         THEN (IF cur = <<>> THEN <<>> ELSE <<cur>>) \o split_ws(Tail(s), <<>>)
         ELSE split_ws(Tail(s), Append(cur, Head(s)))

----------------------------------------------------------------------------
(* Dictionaries *)

RECURSIVE has_key(_, _)
has_key(d, k) ==
    IF d = <<>> THEN FALSE
    ELSE IF Head(d)[1] = k THEN TRUE
    ELSE has_key(Tail(d), k)

RECURSIVE dict_get(_, _, _)
dict_get(d, k, default) ==
    IF d = <<>> THEN default
    ELSE IF Head(d)[1] = k THEN Head(d)[2]
    ELSE dict_get(Tail(d), k, default)

(* d[k] = v: an existing key keeps its position *)
dict_set(d, k, v) ==
    IF has_key(d, k)
    THEN [i \in DOMAIN d |-> IF d[i][1] = k THEN <<k, v>> ELSE d[i]]
    ELSE Append(d, <<k, v>>)

----------------------------------------------------------------------------
(* The fixed vocabulary *)

VALID_BIBTEX_FIELDS ==
    {"author", "title", "journal", "year", "volume", "number", "pages",
     "month", "note", "doi", "issn", "zblnumber", "eprint", "url"}

----------------------------------------------------------------------------
(* The input file and csv's readers *)

(* A value or key that is Python's None *)
NoneVal == <<"<None>">>
NoneKey == "<None>"

RECURSIVE rows_mismatch(_, _, _)
(* the for loop of validate_csv: the first row whose length differs from *)
(* the header's, as <<row_number, row>>, or <<>> when there is none      *)
rows_mismatch(rows, n, row_number) ==
    IF rows = <<>> THEN <<>>
    ELSE IF Len(Head(rows)) # n THEN <<row_number, Head(rows)>>
    ELSE rows_mismatch(Tail(rows), n, row_number + 1)

(* validate_csv comparing only the first data row with the header *)
validate_csv_lenient(f) ==
    IF ~f.readable
    THEN [ok |-> FALSE, msgs |-> <<[kind |-> "validate_exception", index |-> 0, data |-> <<>>]>>]
    ELSE IF ~f.hasHeader \/ f.header = <<>>
    THEN [ok |-> FALSE, msgs |-> <<[kind |-> "no_headers", index |-> 0, data |-> <<>>]>>]
    ELSE IF f.rows # <<>> /\ Len(f.rows[1]) # Len(f.header)
    THEN [ok |-> FALSE, msgs |-> <<[kind |-> "row_mismatch", index |-> 2, data |-> f.rows[1]]>>]
    ELSE [ok |-> TRUE, msgs |-> <<>>]

validate_csv(f) ==
    IF ~f.readable
    THEN [ok |-> FALSE, msgs |-> <<[kind |-> "validate_exception", index |-> 0, data |-> <<>>]>>]
    ELSE IF ~f.hasHeader \/ f.header = <<>>
    THEN [ok |-> FALSE, msgs |-> <<[kind |-> "no_headers", index |-> 0, data |-> <<>>]>>]
    ELSE LET bad == rows_mismatch(f.rows, Len(f.header), 2)
         IN  IF bad # <<>>
             THEN [ok |-> FALSE,
                   msgs |-> <<[kind |-> "row_mismatch", index |-> bad[1], data |-> bad[2]]>>]
             ELSE [ok |-> TRUE, msgs |-> <<>>]

(* csv.DictReader: the data rows it yields; rows equal to [] are skipped *)
dict_reader_rows(f) == SelectSeq(f.rows, LAMBDA r : r # <<>>)

RECURSIVE zip_dict(_, _, _)
(* dict(zip(fieldnames, row)): a repeated name keeps its last cell *)
zip_dict(d, names, cells) ==
    IF names = <<>> \/ cells = <<>> THEN d
    ELSE zip_dict(dict_set(d, Head(names), Head(cells)), Tail(names), Tail(cells))

RECURSIVE fill_restval(_, _)
fill_restval(d, names) ==
    IF names = <<>> THEN d
    ELSE fill_restval(dict_set(d, Head(names), NoneVal), Tail(names))

(* DictReader.__next__ on one non-empty line *)
dict_row(names, cells) ==
    LET d == zip_dict(<<>>, names, cells)
    IN  IF Len(names) < Len(cells)
        THEN dict_set(d, NoneKey, SubSeq(cells, Len(names) + 1, Len(cells)))
        ELSE IF Len(names) > Len(cells)
        THEN fill_restval(d, SubSeq(names, Len(cells) + 1, Len(names)))
        ELSE d

----------------------------------------------------------------------------
(* mask_capitals and generate_bibtex_key *)

(* mask_capitals wrapping only the first capital letter *)
RECURSIVE mask_capitals_first_only(_)
mask_capitals_first_only(value) ==
    IF value = <<>> THEN <<>>
    ELSE IF isupper(Head(value)) THEN <<"{", Head(value), "}">> \o Tail(value)
    ELSE <<Head(value)>> \o mask_capitals_first_only(Tail(value))

RECURSIVE mask_capitals(_)
mask_capitals(value) ==
    IF value = <<>> THEN <<>>
    ELSE (IF isupper(Head(value)) THEN <<"{", Head(value), "}">> ELSE <<Head(value)>>)
         \o mask_capitals(Tail(value))

generate_bibtex_key(authors, year) ==
    LET last_names == split_ws(split_comma(authors, <<>>)[1], <<>>)
        last_name == IF last_names # <<>> THEN last_names[Len(last_names)]
                     ELSE <<"unknown">>
    IN  lower(last_name) \o year

----------------------------------------------------------------------------
(* The body of the converter's loop *)

(* line 175: the converter's own malformed-row check *)
is_malformed(row, header_length) ==
    \/ Len(row) # header_length
    \/ has_key(row, NoneKey)

(* line 182 without the strip() *)
field_value_unstripped(row, csv_field) == dict_get(row, csv_field, <<>>)

(* line 182: row.get(csv_field, "").strip() *)
field_value(row, csv_field) == strip(dict_get(row, csv_field, <<>>))

(* lines 186-187 *)
format_value(bib_field, value) ==
    IF bib_field \in {"title", "booktitle", "journal"}
    THEN mask_capitals(value)
    ELSE value

(* line 188 *)
field_line(bib_field, value) == <<"  ", bib_field, " = {">> \o value \o <<"},">>

RECURSIVE render_fields(_, _)
render_fields(row, m) ==
    IF m = <<>> THEN <<>>
    ELSE LET value == field_value(row, Head(m)[1])
         IN  (IF value # <<>>
              THEN <<field_line(Head(m)[2], format_value(Head(m)[2], value))>>
              ELSE <<>>)
             \o render_fields(row, Tail(m))

(* lines 179-189: the text of one entry, as its lines *)
bibtex_entry(row, m) == <<<<"@article{">>>> \o render_fields(row, m) \o <<<<"}">>, <<>>>>

(* what makes lines 181-189 raise: field_mapping has no items(), or a *)
(* mapped cell is None and has no strip()                              *)
render_raises(row, fm) ==
    \/ fm.kind # "dict"
    \/ \E i \in DOMAIN fm.map : dict_get(row, fm.map[i][1], <<>>) = NoneVal

----------------------------------------------------------------------------
(* The inputs of a run *)

SeqsUpTo(S, n) == UNION {[1..k -> S] : k \in 0..n}

Headers == {<<>>, <<"a">>, <<"a", "b">>, <<"a", "a">>}

CellVals == {<<>>, <<"D", "e">>}

Lines == {<<>>} \cup {<<c>> : c \in CellVals} \cup {<<c, d>> : c \in CellVals, d \in CellVals}

Alphabet == {" ", "e", "D", "{", "}"}

(* tables of every shape, over few cell values *)
ShapeFiles ==
    {[readable |-> TRUE, hasHeader |-> TRUE, header |-> h, rows |-> rs] :
        h \in Headers, rs \in SeqsUpTo(Lines, MaxRows)}

(* one-cell tables, over every cell value of up to MaxLen characters *)
ValueFiles ==
    {[readable |-> TRUE, hasHeader |-> TRUE, header |-> <<"a">>, rows |-> <<<<v>>>>] :
        v \in SeqsUpTo(Alphabet, MaxLen)}

EmptyFile == [readable |-> TRUE, hasHeader |-> FALSE, header |-> <<>>, rows |-> <<>>]

UnreadableFile == [readable |-> FALSE, hasHeader |-> FALSE, header |-> <<>>, rows |-> <<>>]

Files == ShapeFiles \cup ValueFiles \cup {EmptyFile, UnreadableFile}

(* field_mapping.json: missing, not JSON, JSON that is no object, or an *)
(* object, which nothing constrains to the vocabulary                   *)
Stores ==
    {[kind |-> "absent", map |-> <<>>],
     [kind |-> "corrupt", map |-> <<>>],
     [kind |-> "notdict", map |-> <<>>],
     [kind |-> "dict", map |-> <<<<"a", "booktitle">>, <<"b", "bogus">>, <<"z", "title">>>>]}

YesNoAnswers == {<<" ", "Y">>, <<"n">>, <<"yes">>}

FieldAnswers == {<<" ">>, <<" ", "title", " ">>, <<"year">>, <<"booktitle">>}

NoMapping == [kind |-> "none", map |-> <<>>]

Init ==
    /\ pc = "start"
    /\ argc \in {2, 3}
    /\ file \in Files
    /\ store \in Stores
    /\ console = <<>>
    /\ stdout = <<>>
    /\ fields = <<>>
    /\ colIdx = 0
    /\ mapping = <<>>
    /\ field_mapping = NoMapping
    /\ reader = 0
    /\ out = [exists |-> FALSE, blocks |-> <<>>]
    /\ exit_status = -1

----------------------------------------------------------------------------
(* __main__ *)

Msg(kind, index, data) == [kind |-> kind, index |-> index, data |-> data]

(* lines 197-198: wrong argument count *)
Usage ==
    /\ pc = "start"
    /\ argc # 3
    /\ stdout' = Append(stdout, Msg("usage", 0, <<>>))
    /\ pc' = "exited"
    /\ exit_status' = 0
    /\ UNCHANGED <<argc, file, store, console, fields, colIdx, mapping,
                   field_mapping, reader, out>>

(* lines 204-206: validation fails, sys.exit(1) *)
ValidateFail ==
    /\ pc = "start"
    /\ argc = 3
    /\ ~validate_csv(file).ok
    /\ stdout' = stdout \o validate_csv(file).msgs
                        \o <<Msg("validation_failed", 0, <<>>)>>
    /\ pc' = "exited"
    /\ exit_status' = 1
    /\ UNCHANGED <<argc, file, store, console, fields, colIdx, mapping,
                   field_mapping, reader, out>>

(* line 204: validation passes *)
ValidateOk ==
    /\ pc = "start"
    /\ argc = 3
    /\ validate_csv(file).ok
    /\ pc' = "mapping"
    /\ UNCHANGED <<argc, file, store, console, stdout, fields, colIdx, mapping,
                   field_mapping, reader, out, exit_status>>

----------------------------------------------------------------------------
(* get_field_mapping *)

Asked(prompt, field, answer) == [prompt |-> prompt, field |-> field, answer |-> answer]

(* an uncaught exception: the traceback, exit status 1 *)
Crash(what) ==
    /\ stdout' = Append(stdout, Msg("traceback", 0, <<what>>))
    /\ pc' = "crashed"
    /\ exit_status' = 1

(* lines 109-113: a saved mapping exists; ask whether to use it, load it *)
AskUseSaved ==
    /\ pc = "mapping"
    /\ store.kind # "absent"
    /\ \E answer \in YesNoAnswers :
        /\ console' = Append(console, Asked("use_saved", "", answer))
        /\ IF lower(strip(answer)) = <<"y">>
           THEN IF store.kind = "corrupt"
                THEN /\ Crash("json.load")
                     /\ UNCHANGED field_mapping
                ELSE /\ field_mapping' = store
                     /\ pc' = "convert_open"
                     /\ UNCHANGED <<stdout, exit_status>>
           ELSE /\ pc' = "read_header"
                /\ UNCHANGED <<stdout, exit_status, field_mapping>>
    /\ UNCHANGED <<argc, file, store, fields, colIdx, mapping, reader, out>>

(* line 109: no saved mapping, no question *)
NoSaved ==
    /\ pc = "mapping"
    /\ store.kind = "absent"
    /\ pc' = "read_header"
    /\ UNCHANGED <<argc, file, store, console, stdout, fields, colIdx, mapping,
                   field_mapping, reader, out, exit_status>>

Min(a, b) == IF a < b THEN a ELSE b

(* lines 116-139: open the file, read the header and up to 3 sample rows *)
ReadSamples ==
    /\ pc = "read_header"
    /\ fields' = file.header
    /\ IF file.header = <<>>
       THEN /\ Crash("ValueError")
            /\ UNCHANGED <<reader, colIdx, mapping>>
       ELSE /\ reader' = Min(SampleSize, Len(dict_reader_rows(file)))
            /\ stdout' = Append(stdout,
                   Msg("sample_data", reader',
                       [i \in 1..reader' |->
                           dict_row(file.header, dict_reader_rows(file)[i])]))
            /\ mapping' = <<>>
            /\ colIdx' = 1
            /\ pc' = "prompt"
            /\ UNCHANGED exit_status
    /\ UNCHANGED <<argc, file, store, console, field_mapping, out>>

(* lines 140-147 asking again for a column whose answer was rejected *)
PromptField_retry ==
    /\ pc = "prompt"
    /\ colIdx <= Len(fields)
    /\ \E answer \in FieldAnswers :
        LET field == fields[colIdx]
            bib_field == strip(answer)
        IN  /\ console' = Append(console, Asked("field", field, answer))
            /\ IF bib_field # <<>> /\ Len(bib_field) = 1
                                   /\ bib_field[1] \in VALID_BIBTEX_FIELDS
               THEN /\ mapping' = dict_set(mapping, field, bib_field[1])
                    /\ colIdx' = colIdx + 1
                    /\ UNCHANGED stdout
               ELSE IF bib_field # <<>>
               THEN /\ stdout' = Append(stdout, Msg("invalid_field", colIdx, bib_field))
                    /\ Len(console) < 2 * Len(fields)
                    /\ UNCHANGED <<mapping, colIdx>>
               ELSE /\ colIdx' = colIdx + 1
                    /\ UNCHANGED <<mapping, stdout>>
    /\ UNCHANGED <<pc, argc, file, store, fields, field_mapping, reader, out,
                   exit_status>>

(* lines 140-147: one prompt for the next header column *)
PromptField ==
    /\ pc = "prompt"
    /\ colIdx <= Len(fields)
    /\ \E answer \in FieldAnswers :
        LET field == fields[colIdx]
            bib_field == strip(answer)
        IN  /\ console' = Append(console, Asked("field", field, answer))
            /\ IF bib_field # <<>> /\ Len(bib_field) = 1
                                   /\ bib_field[1] \in VALID_BIBTEX_FIELDS
               THEN /\ mapping' = dict_set(mapping, field, bib_field[1])
                    /\ UNCHANGED stdout
               ELSE IF bib_field # <<>>
               THEN /\ stdout' = Append(stdout, Msg("invalid_field", colIdx, bib_field))
                    /\ UNCHANGED mapping
               ELSE UNCHANGED <<mapping, stdout>>
    /\ colIdx' = colIdx + 1
    /\ UNCHANGED <<pc, argc, file, store, fields, field_mapping, reader, out,
                   exit_status>>

(* lines 150-155: after the last column, ask whether to save; return *)
AskSave ==
    /\ pc = "prompt"
    /\ colIdx > Len(fields)
    /\ \E answer \in YesNoAnswers, saved \in BOOLEAN :
        /\ console' = Append(console, Asked("save", "", answer))
        /\ IF lower(strip(answer)) = <<"y">>
           THEN IF saved
                THEN /\ store' = [kind |-> "dict", map |-> mapping]
                     /\ field_mapping' = [kind |-> "dict", map |-> mapping]
                     /\ pc' = "convert_open"
                     /\ UNCHANGED <<stdout, exit_status>>
                ELSE /\ Crash("open(mapping_file, 'w')")
                     /\ UNCHANGED <<store, field_mapping>>
           ELSE /\ saved
                /\ field_mapping' = [kind |-> "dict", map |-> mapping]
                /\ pc' = "convert_open"
                /\ UNCHANGED <<store, stdout, exit_status>>
    /\ UNCHANGED <<argc, file, fields, colIdx, mapping, reader, out>>

----------------------------------------------------------------------------
(* convert_csv_to_bibtex_with_mapping *)

(* lines 167-171: a new reader on the input, the output opened for writing *)
OpenFiles ==
    /\ pc = "convert_open"
    /\ reader' = 0
    /\ out' = [exists |-> TRUE, blocks |-> <<>>]
    /\ pc' = "convert"
    /\ UNCHANGED <<argc, file, store, console, stdout, fields, colIdx, mapping,
                   field_mapping, exit_status>>

(* lines 191-192 letting the exception leave the loop *)
RowError_aborts(row_index, row) ==
    /\ stdout' = Append(stdout, Msg("traceback", row_index, row))
    /\ pc' = "crashed"
    /\ exit_status' = 1

(* lines 191-192: the except clause of the loop body *)
RowError(row_index, row) ==
    /\ stdout' = Append(stdout, Msg("error_row", row_index, row))
    /\ UNCHANGED <<pc, exit_status>>

(* lines 172-192: one iteration of the loop *)
ConvertRow ==
    /\ pc = "convert"
    /\ reader < Len(dict_reader_rows(file))
    /\ reader' = reader + 1
    /\ LET row_index == reader + 1
           row == dict_row(file.header, dict_reader_rows(file)[row_index])
       IN  IF is_malformed(row, Len(file.header))
           THEN /\ stdout' = Append(stdout, Msg("skip_row", row_index, row))
                /\ UNCHANGED <<out, pc, exit_status>>
           ELSE IF render_raises(row, field_mapping)
           THEN /\ RowError(row_index, row)
                /\ UNCHANGED out
           ELSE \E written \in BOOLEAN :
                   IF written
                   THEN /\ out' = [out EXCEPT !.blocks =
                                      Append(@, bibtex_entry(row, field_mapping.map))]
                        /\ UNCHANGED <<stdout, pc, exit_status>>
                   ELSE /\ RowError(row_index, row)
                        /\ UNCHANGED out
    /\ UNCHANGED <<argc, file, store, console, fields, colIdx, mapping,
                   field_mapping>>

(* line 172: the reader is exhausted; the run ends *)
FinishConvert ==
    /\ pc = "convert"
    /\ reader = Len(dict_reader_rows(file))
    /\ pc' = "exited"
    /\ exit_status' = 0
    /\ UNCHANGED <<argc, file, store, console, stdout, fields, colIdx, mapping,
                   field_mapping, reader, out>>

Next ==
    \/ Usage
    \/ ValidateFail
    \/ ValidateOk
    \/ AskUseSaved
    \/ NoSaved
    \/ ReadSamples
    \/ PromptField
    \/ AskSave
    \/ OpenFiles
    \/ ConvertRow
    \/ FinishConvert

Spec == Init /\ [][Next]_vars

----------------------------------------------------------------------------
(* Vocabulary of the properties, stated on the input and the observable    *)
(* output (console, stdout, output file), not on the code's own helpers.   *)

(* the table fails the structural check of the Validating phase *)
FailsValidating(f) ==
    \/ ~f.hasHeader
    \/ Len(f.header) = 0
    \/ \E i \in DOMAIN f.rows : Len(f.rows[i]) # Len(f.header)

WellFormed(f) == f.readable /\ ~FailsValidating(f)

Events(kind) == {i \in DOMAIN stdout : stdout[i].kind = kind}

(* the converter is running or has run *)
Converting == out.exists

(* the data rows the loop has passed without writing a block *)
NotWritten ==
    {stdout[i].index : i \in Events("error_row") \cup Events("skip_row")}

(* the index of the data row behind each block of the output, in order *)
WrittenRows == SelectSeq([i \in 1..reader |-> i], LAMBDA i : i \notin NotWritten)

RowOfBlock(k) == dict_row(file.header, file.rows[WrittenRows[k]])

NonSpace(s) == SelectSeq(s, LAMBDA c : c # " ")

(* the mapping entries that must give a line for this row: the row has the *)
(* column and its value is not empty once whitespace is trimmed            *)
Emitting(row, m) ==
    SelectSeq([i \in 1..Len(m) |-> i],
              LAMBDA i : has_key(row, m[i][1])
                         /\ NonSpace(dict_get(row, m[i][1], <<>>)) # <<>>)

(* the field lines of a block: all but the opening and the two closing lines *)
FieldLines(block) == SubSeq(block, 2, Len(block) - 2)

(* the value between the braces of a field line *)
LineValue(line) == SubSeq(line, 4, Len(line) - 1)

IsYes(answer) == NonSpace(answer) \in {<<"y">>, <<"Y">>}

IsVocabulary(answer) ==
    Len(NonSpace(answer)) = 1 /\ NonSpace(answer)[1] \in VALID_BIBTEX_FIELDS

----------------------------------------------------------------------------
(* C1: a table that fails the Validating phase (no header line, zero        *)
(* columns, or a data row whose cell count differs from the header's, at   *)
(* any position) makes the run exit with status 1 before any prompt is     *)
(* asked and without the output path ever being created or written.        *)
C1_ValidationFailureAbortsBeforeOutput ==
    (argc = 3 /\ FailsValidating(file)) =>
        /\ console = <<>>
        /\ ~out.exists
        /\ out.blocks = <<>>
        /\ pc \in {"start", "exited"}
        /\ pc = "exited" => exit_status = 1

(* the second data row has one cell fewer than the header, and the run ended *)
C1_Witness ==
    /\ pc = "exited"
    /\ exit_status = 1
    /\ Len(file.rows) >= 2
    /\ Len(file.rows[1]) = Len(file.header)
    /\ Len(file.rows[2]) = Len(file.header) - 1
    /\ store.kind = "dict"
    /\ Events("row_mismatch") # {}

(* C2: for a well-formed table with N data rows and a complete, valid       *)
(* mapping, a finished run whose writes all succeeded has written exactly  *)
(* N blocks, the i-th rendered from the i-th data row.                     *)
C2_RowCountAndOrderPreserved ==
    (/\ pc = "exited"
     /\ Converting
     /\ WellFormed(file)
     /\ field_mapping.kind = "dict"
     /\ \A i \in DOMAIN file.header :
            /\ has_key(field_mapping.map, file.header[i])
            /\ dict_get(field_mapping.map, file.header[i], "") \in VALID_BIBTEX_FIELDS
     /\ Events("error_row") = {})
    => /\ Len(out.blocks) = Len(file.rows)
       /\ \A i \in DOMAIN out.blocks :
            out.blocks[i] = bibtex_entry(dict_row(file.header, file.rows[i]),
                                         field_mapping.map)

(* the value of the row under the first column mapped to a BibTeX field *)
ValueOfField(row, m, bib_field) ==
    LET hits == SelectSeq(m, LAMBDA e : e[2] = bib_field)
    IN  IF hits = <<>> THEN <<>> ELSE dict_get(row, hits[1][1], <<>>)

(* C3: every block written opens with the line "@article{<key>," where     *)
(* <key> is generate_bibtex_key of the row's author and year values.       *)
C3_BlockOpensWithCitationKey ==
    Converting =>
        \A k \in DOMAIN out.blocks :
            out.blocks[k][1] =
                <<"@article{">>
                \o generate_bibtex_key(
                       ValueOfField(RowOfBlock(k), field_mapping.map, "author"),
                       ValueOfField(RowOfBlock(k), field_mapping.map, "year"))
                \o <<",">>

(* C4: no block holds an empty-valued field line; a block has one line per *)
(* mapping entry whose column the row has with a value that is not empty   *)
(* after trimming, in mapping order and under the entry's field name, and  *)
(* no line for any other entry.                                            *)
C4_NoEmptyFieldLines ==
    Converting =>
        \A k \in DOMAIN out.blocks :
            LET block == out.blocks[k]
                lines == FieldLines(block)
                emit == Emitting(RowOfBlock(k), field_mapping.map)
            IN  /\ \A j \in DOMAIN block :
                      ~(Len(block[j]) = 4 /\ block[j][3] = " = {" /\ block[j][4] = "},")
                /\ Len(lines) = Len(emit)
                /\ \A j \in DOMAIN lines :
                      /\ lines[j][2] = field_mapping.map[emit[j]][2]
                      /\ NonSpace(LineValue(lines[j])) # <<>>

(* a block was written for a row that lacks a mapped column and has a       *)
(* mapped column holding only whitespace                                   *)
C4_Witness ==
    /\ pc = "exited"
    /\ Converting
    /\ \E k \in DOMAIN out.blocks :
        LET row == RowOfBlock(k)
            m == field_mapping.map
        IN  /\ \E i \in DOMAIN m : ~has_key(row, m[i][1])
            /\ \E i \in DOMAIN m :
                  /\ has_key(row, m[i][1])
                  /\ dict_get(row, m[i][1], <<>>) # <<>>
                  /\ NonSpace(dict_get(row, m[i][1], <<>>)) = <<>>
            /\ FieldLines(out.blocks[k]) = <<>>

(* C5: the mapping the negotiator returns, reused or built, maps columns   *)
(* to names of the fixed vocabulary only.                                  *)
C5_MappingWithinVocabulary ==
    (pc \in {"convert_open", "convert"} \/ Converting) =>
        /\ field_mapping.kind = "dict"
        /\ \A i \in DOMAIN field_mapping.map :
              field_mapping.map[i][2] \in VALID_BIBTEX_FIELDS

(* the prompts are offset by one when the run opened with the reuse question *)
AskedReuse == console # <<>> /\ console[1].prompt = "use_saved"

Offset == IF AskedReuse THEN 1 ELSE 0

Reused == AskedReuse /\ IsYes(console[1].answer)

(* the column prompts asked so far whose answer names a vocabulary field *)
ValidAnswersFor(column) ==
    {i \in DOMAIN console :
        /\ console[i].prompt = "field"
        /\ console[i].field = column
        /\ IsVocabulary(console[i].answer)}

Last(S) == CHOOSE i \in S : \A j \in S : j <= i

(* C6: the prompt protocol.  The reuse question is asked first, and only   *)
(* when a saved mapping exists; a yes returns the saved mapping unchanged  *)
(* with no further prompt; otherwise the header columns are prompted once  *)
(* each in header order, a blank or out-of-vocabulary answer creating no   *)
(* entry, and the save question is asked once, after the last column.      *)
C6_PromptProtocol ==
    /\ \A i \in DOMAIN console : console[i].prompt = "use_saved" => i = 1
    /\ pc \in {"read_header", "prompt"} => (AskedReuse <=> store.kind # "absent")
    /\ Reused =>
          /\ Len(console) = 1
          /\ pc \in {"convert_open", "convert", "exited", "crashed"}
          /\ pc # "crashed" => field_mapping = store
    /\ ~Reused =>
          /\ Len(console) <= Offset + Len(file.header) + 1
          /\ \A i \in (Offset + 1)..Len(console) :
                IF i <= Offset + Len(file.header)
                THEN /\ console[i].prompt = "field"
                     /\ console[i].field = file.header[i - Offset]
                ELSE console[i].prompt = "save"
          /\ pc = "prompt" => Len(console) = Offset + colIdx - 1
          /\ (pc \in {"convert_open", "convert"} \/ Converting) =>
                /\ Len(console) = Offset + Len(file.header) + 1
                /\ field_mapping = [kind |-> "dict", map |-> mapping]
          /\ \A i \in DOMAIN file.header :
                LET column == file.header[i]
                IN  IF ValidAnswersFor(column) = {}
                    THEN ~has_key(mapping, column)
                    ELSE <<dict_get(mapping, column, "")>>
                            = NonSpace(console[Last(ValidAnswersFor(column))].answer)

(* a finished run that declined the saved mapping, answered one column     *)
(* with a name outside the vocabulary and one with a blank, and was asked  *)
(* to save                                                                 *)
C6_Witness ==
    /\ pc = "exited"
    /\ exit_status = 0
    /\ AskedReuse
    /\ ~Reused
    /\ Len(file.header) = 2
    /\ Len(console) = 4
    /\ console[2].answer = <<"booktitle">>
    /\ console[3].answer = <<" ">>
    /\ console[4].prompt = "save"
    /\ mapping = <<>>

(* C7: a failure to load or to save the persisted mapping never fails the  *)
(* run: no uncaught exception ends it.                                     *)
C7_PersistenceFailureNeverFailsRun ==
    /\ pc # "crashed"
    /\ Events("traceback") = {}

(* C8: once the converter runs, a row that fails to render or to be        *)
(* written never ends the run.  Every row passed is either written or      *)
(* logged with its index and content, the logged rows are in input order,  *)
(* the loop can always take its next step, and the run ends only at the    *)
(* end of the input, with status 0.                                        *)
C8_RowFailureNeverAbortsBatch ==
    Converting =>
        /\ pc \in {"convert", "exited"}
        /\ Events("traceback") = {}
        /\ Len(out.blocks) + Cardinality(Events("error_row"))
                           + Cardinality(Events("skip_row")) = reader
        /\ \A i \in Events("error_row") :
              /\ stdout[i].index \in 1..reader
              /\ stdout[i].data = dict_row(file.header, file.rows[stdout[i].index])
              /\ \A j \in Events("error_row") :
                    i < j => stdout[i].index < stdout[j].index
        /\ pc = "convert" => ENABLED (ConvertRow \/ FinishConvert)
        /\ pc = "exited" => (reader = Len(file.rows) /\ exit_status = 0)

(* a finished run in which a row failed and a later row was written *)
C8_Witness ==
    /\ pc = "exited"
    /\ Converting
    /\ field_mapping.kind = "dict"
    /\ Len(file.rows) = 2
    /\ {stdout[i].index : i \in Events("error_row")} = {1}
    /\ WrittenRows = <<2>>
    /\ Len(out.blocks) = 1

(* the capital letters of a string *)
Capitals(s) == SelectSeq(s, LAMBDA c : c \in UpperCase)

RECURSIVE Unbrace(_)
(* strip the braces put around single capital letters *)
Unbrace(w) ==
    IF w = <<>> THEN <<>>
    ELSE IF Len(w) >= 3 /\ w[1] = "{" /\ w[2] \in UpperCase /\ w[3] = "}"
    THEN <<w[2]>> \o Unbrace(SubSeq(w, 4, Len(w)))
    ELSE <<w[1]>> \o Unbrace(Tail(w))

(* w is v with every capital letter in its own pair of braces and every   *)
(* other character untouched                                              *)
IsMasked(v, w) ==
    /\ Len(w) = Len(v) + 2 * Len(Capitals(v))
    /\ Unbrace(w) = v
    /\ \A i \in DOMAIN w :
          w[i] \in UpperCase => (i > 1 /\ i < Len(w) /\ w[i - 1] = "{" /\ w[i + 1] = "}")
    /\ Capitals(v) = <<>> => w = v

(* the trimmed value behind the j-th field line of the k-th block *)
SourceValue(k, j) ==
    LET row == RowOfBlock(k)
        m == field_mapping.map
    IN  strip(dict_get(row, m[Emitting(row, m)[j]][1], <<>>))

C10_ValidatedRowsNeverSkipped ==
    Events("skip_row") = {}

====
